---------------------------- MODULE Spec2Model ----------------------------
(***************************************************************************)
(* MessageBuilder (src/message_builder.rs): a String accumulator with      *)
(* chainable append operations and a consuming build().                    *)
(*                                                                         *)
(* A text is a sequence of one-character strings.  The builder is owned by *)
(* one caller; every method but fmt takes `self` by value, so the value a  *)
(* method was called on is gone after the call.  The caller is either      *)
(* arbitrary (Spec) or runs one of the documented call chains (SpecDoc).   *)
(***************************************************************************)
EXTENDS Naturals, Sequences, FiniteSets, TLC

VARIABLES
    content,   \* self.0, the inner String of the builder
    state,     \* "accumulating" while the caller owns a builder, "consumed" after build()
    built,     \* the String build() handed to the caller
    shown,     \* <<>> or <<t>>: t is what the last fmt wrote to the formatter
    last,      \* the last call and its argument
    nops,      \* number of append calls so far
    log,       \* the calls made so far by a documented chain
    program    \* the chain the caller runs; <<>> for an arbitrary caller

vars == <<content, state, built, shown, last, nops, log, program>>

\* Most append calls an arbitrary caller makes.
MaxOps == 3

-----------------------------------------------------------------------------
(* Texts *)

T_empty == <<>>
T_Hi == <<"H", "i", " ">>
T_Bang == <<"!", " ">>
T_test == <<"t", "e", "s", "t">>
T_YouSent == <<"Y", "o", "u", " ", "s", "e", "n", "t", " ", "a", " ",
               "m", "e", "s", "s", "a", "g", "e", ",", " ">>
T_forged == <<"<", "@", "4", "2", ">">>

Texts == {T_empty, T_Hi, T_Bang, T_test, T_YouSent, T_forged}

Ids == {0, 42, 123}

N_general == <<"g", "e", "n">>
N_ok == <<"o", "k">>

\* What a caller can pass: a bare u64, a typed id, or an entity of ::model.
Value(k, n, nm) == [kind |-> k, id |-> n, name |-> nm]

RawIds == {Value("u64", n, <<>>) : n \in Ids}
Users == {Value("User", n, N_general) : n \in Ids}
Roles == {Value("Role", n, N_general) : n \in Ids}
GuildChannels == {Value("GuildChannel", n, N_general) : n \in Ids}
Emojis == {Value("Emoji", 7, N_ok), Value("Emoji", 123, N_general)}

ChannelArgs == RawIds \cup GuildChannels
RoleArgs == RawIds \cup Roles
UserArgs == RawIds \cup Users
Mentionables == Users \cup Roles \cup GuildChannels \cup Emojis

-----------------------------------------------------------------------------
(* Formatting rules of ::model and of std, which the builder calls *)

Digits == <<"0", "1", "2", "3", "4", "5", "6", "7", "8", "9">>

RECURSIVE ToDecimal(_)
ToDecimal(n) ==
    IF n < 10 THEN <<Digits[n + 1]>>
    ELSE ToDecimal(n \div 10) \o <<Digits[(n % 10) + 1]>>

\* Into<ChannelId> / Into<RoleId> / Into<UserId>: the id the value refers to.
IntoChannelId(c) == c.id
IntoRoleId(r) == r.id
IntoUserId(u) == u.id

ChannelIdDisplay(id) == <<"<", "#">> \o ToDecimal(id) \o <<">">>
RoleIdDisplay(id) == <<"<", "@", "&">> \o ToDecimal(id) \o <<">">>
UserIdDisplay(id) == <<"<", "@">> \o ToDecimal(id) \o <<">">>
EmojiDisplay(e) == <<"<", ":">> \o e.name \o <<":">> \o ToDecimal(e.id) \o <<">">>

\* Mentionable::mention of each implementing entity.
Mention(item) ==
    CASE item.kind = "User" -> UserIdDisplay(item.id)
      [] item.kind = "Role" -> RoleIdDisplay(item.id)
      [] item.kind = "GuildChannel" -> ChannelIdDisplay(item.id)
      [] item.kind = "Emoji" -> EmojiDisplay(item)

IsPrefix(s, t) == Len(s) <= Len(t) /\ SubSeq(t, 1, Len(s)) = s

Contains(s, t) ==
    \E i \in 0..Len(s) : i + Len(t) <= Len(s) /\ SubSeq(s, i + 1, i + Len(t)) = t

\* String::push_str
push_str(s, t) == s \o t

-----------------------------------------------------------------------------
(* The caller *)

AppendOps == {"push", "mention", "channel", "role", "user", "emoji"}

Programs ==
    { <<"build">>,
      <<"push", "build">>,
      <<"push", "push", "build">>,
      <<"channel", "build">>,
      <<"role", "build">>,
      <<"user", "build">>,
      <<"push", "mention", "build">>,
      <<"mention", "mention", "build">>,
      <<"push", "mention", "push", "mention", "build">>,
      <<"emoji", "fmt", "build">> }

Call(op, arg) == [op |-> op, arg |-> arg]
NoArg == Value("none", 0, <<>>)
TextArg(t) == Value("str", 0, t)

\* The caller holds a builder and its next call is op.
MayCall(op) ==
    /\ state = "accumulating"
    /\ IF program = <<>>
       THEN op \in AppendOps => nops < MaxOps
       ELSE Len(log) < Len(program) /\ program[Len(log) + 1] = op

Record(op, arg) ==
    /\ last' = Call(op, arg)
    /\ nops' = IF op \in AppendOps THEN nops + 1 ELSE nops
    /\ log' = IF program = <<>> THEN log ELSE Append(log, Call(op, arg))
    /\ UNCHANGED program

-----------------------------------------------------------------------------
(* MessageBuilder *)

\* A default value that is not the empty String.
default_NonEmpty == <<" ">>

default == <<>>

new == default

\* build(&self) returning a copy: the caller keeps the builder.
build_Borrowing ==
    /\ MayCall("build")
    /\ built' = content
    /\ Record("build", NoArg)
    /\ UNCHANGED <<content, state, shown>>

\* build returning a fresh String instead of the inner value.
build_Default ==
    /\ MayCall("build")
    /\ built' = default
    /\ state' = "consumed"
    /\ Record("build", NoArg)
    /\ UNCHANGED <<content, shown>>

build ==
    /\ MayCall("build")
    /\ built' = content
    /\ state' = "consumed"
    /\ Record("build", NoArg)
    /\ UNCHANGED <<content, shown>>

\* channel formatting its argument as a UserId.
channel_AsUser(c) ==
    /\ MayCall("channel")
    /\ content' = push_str(content, UserIdDisplay(IntoChannelId(c)))
    /\ Record("channel", c)
    /\ UNCHANGED <<state, built, shown>>

channel(c) ==
    /\ MayCall("channel")
    /\ content' = push_str(content, ChannelIdDisplay(IntoChannelId(c)))
    /\ Record("channel", c)
    /\ UNCHANGED <<state, built, shown>>

emoji(e) ==
    /\ MayCall("emoji")
    /\ content' = push_str(content, EmojiDisplay(e))
    /\ Record("emoji", e)
    /\ UNCHANGED <<state, built, shown>>

\* mention skipping a token the content already holds.
mention_Dedup(item) ==
    /\ MayCall("mention")
    /\ content' = IF Contains(content, Mention(item)) THEN content
                  ELSE push_str(content, Mention(item))
    /\ Record("mention", item)
    /\ UNCHANGED <<state, built, shown>>

\* mention putting the token in front of the content.
mention_Prepend(item) ==
    /\ MayCall("mention")
    /\ content' = push_str(Mention(item), content)
    /\ Record("mention", item)
    /\ UNCHANGED <<state, built, shown>>

mention(item) ==
    /\ MayCall("mention")
    /\ content' = push_str(content, Mention(item))
    /\ Record("mention", item)
    /\ UNCHANGED <<state, built, shown>>

\* push separating fragments with a space.
push_Separated(text) ==
    /\ MayCall("push")
    /\ content' = IF content = <<>> THEN text
                  ELSE push_str(push_str(content, <<" ">>), text)
    /\ Record("push", TextArg(text))
    /\ UNCHANGED <<state, built, shown>>

push(text) ==
    /\ MayCall("push")
    /\ content' = push_str(content, text)
    /\ Record("push", TextArg(text))
    /\ UNCHANGED <<state, built, shown>>

\* role assigning the token instead of appending it.
role_Overwrite(r) ==
    /\ MayCall("role")
    /\ content' = RoleIdDisplay(IntoRoleId(r))
    /\ Record("role", r)
    /\ UNCHANGED <<state, built, shown>>

role(r) ==
    /\ MayCall("role")
    /\ content' = push_str(content, RoleIdDisplay(IntoRoleId(r)))
    /\ Record("role", r)
    /\ UNCHANGED <<state, built, shown>>

\* user formatting its argument as a RoleId.
user_AsRole(u) ==
    /\ MayCall("user")
    /\ content' = push_str(content, RoleIdDisplay(IntoUserId(u)))
    /\ Record("user", u)
    /\ UNCHANGED <<state, built, shown>>

user(u) ==
    /\ MayCall("user")
    /\ content' = push_str(content, UserIdDisplay(IntoUserId(u)))
    /\ Record("user", u)
    /\ UNCHANGED <<state, built, shown>>

\* fmt through fmt::Debug, which quotes the String.
fmt_Debug ==
    /\ MayCall("fmt")
    /\ shown' = <<push_str(push_str(<<"\"">>, content), <<"\"">>)>>
    /\ Record("fmt", NoArg)
    /\ UNCHANGED <<content, state, built>>

fmt ==
    /\ MayCall("fmt")
    /\ shown' = <<content>>
    /\ Record("fmt", NoArg)
    /\ UNCHANGED <<content, state, built>>

-----------------------------------------------------------------------------

InitBuilder ==
    /\ content = new
    /\ state = "accumulating"
    /\ built = <<>>
    /\ shown = <<>>
    /\ last = Call("new", NoArg)
    /\ nops = 0
    /\ log = <<>>

Init == InitBuilder /\ program = <<>>

InitDoc == InitBuilder /\ program \in Programs

Next ==
    \/ \E text \in Texts : push(text)
    \/ \E item \in Mentionables : mention(item)
    \/ \E c \in ChannelArgs : channel(c)
    \/ \E r \in RoleArgs : role(r)
    \/ \E u \in UserArgs : user(u)
    \/ \E e \in Emojis : emoji(e)
    \/ fmt
    \/ build

Spec == Init /\ [][Next]_vars

SpecDoc == InitDoc /\ [][Next]_vars

-----------------------------------------------------------------------------
(* Properties *)

\* The fragment a recorded append call contributes.
FragmentOf(call) ==
    CASE call.op = "push" -> call.arg.name
      [] call.op = "mention" -> Mention(call.arg)
      [] call.op = "channel" -> ChannelIdDisplay(call.arg.id)
      [] call.op = "role" -> RoleIdDisplay(call.arg.id)
      [] call.op = "user" -> UserIdDisplay(call.arg.id)
      [] call.op = "emoji" -> EmojiDisplay(call.arg)

Ran(p) == program = p /\ state = "consumed"

\* C1: build(push(push(new(), a), b)) is a followed by b: verbatim, in call
\* order, no separator, nothing dropped, also when a or b is empty.
C1_PushPushIsConcat ==
    Ran(<<"push", "push", "build">>) =>
        /\ built = log[1].arg.name \o log[2].arg.name
        /\ Len(built) = Len(log[1].arg.name) + Len(log[2].arg.name)

C1_Witness ==
    /\ Ran(<<"push", "push", "build">>)
    /\ log[1].arg.name = T_test
    /\ log[2].arg.name = T_Bang
    /\ built = <<"t", "e", "s", "t", "!", " ">>

\* C2: every append operation leaves the previous content as an unchanged
\* prefix and adds exactly its own fragment after it; no step of the builder
\* removes or rewrites content.
C2_AppendOnly ==
    [][ /\ IsPrefix(content, content')
        /\ nops' = nops + 1 => content' = content \o FragmentOf(last') ]_vars

C2_Witness ==
    /\ nops = 3
    /\ last.op = "role"
    /\ Len(content) > Len(FragmentOf(last))
    /\ state = "accumulating"

\* C3: fmt writes exactly the content, which is what build returns when it
\* is called next, and fmt leaves the builder as it was: not consumed, same
\* content, nothing built.
C3_ViewIsBuild ==
    [][ /\ last'.op = "fmt" =>
              /\ shown' = <<content>>
              /\ content' = content
              /\ state' = state
              /\ built' = built
              /\ nops' = nops
        /\ (last.op = "fmt" /\ last'.op = "build") => <<built'>> = shown ]_vars

C3_Witness ==
    /\ last.op = "build"
    /\ shown = <<built>>
    /\ nops = 2
    /\ Len(built) > 0

\* C4: a builder made by new() or default() has empty content, and
\* build(new()) is the empty text.
C4_NewIsEmpty ==
    /\ new = default
    /\ nops = 0 => content = <<>>
    /\ (nops = 0 /\ state = "consumed") => built = <<>>

C4_Witness == nops = 0 /\ state = "consumed" /\ built = <<>> /\ last.op = "build"

\* C5: build returns exactly the inner value as it is after the appends
\* made so far; new().push("test") has inner value "test".
C5_BuildIsInner ==
    /\ state = "consumed" => built = content
    /\ (nops = 1 /\ last = Call("push", TextArg(T_test))) =>
           content = <<"t", "e", "s", "t">>

C5_Witness ==
    /\ state = "consumed"
    /\ nops = 3
    /\ built = T_test \o <<"<", "@", "&", "0", ">">> \o T_Bang

\* C6: build(channel(new(), x)) is the channel token of the id x converts
\* to, "<#123>" for 123, whether x is a bare id or an entity with that id.
C6_ChannelToken ==
    Ran(<<"channel", "build">>) =>
        /\ built = ChannelIdDisplay(log[1].arg.id)
        /\ log[1].arg.id = 123 => built = <<"<", "#", "1", "2", "3", ">">>
        /\ log[1].arg.id = 0 => built = <<"<", "#", "0", ">">>

C6_Witness ==
    /\ Ran(<<"channel", "build">>)
    /\ log[1].arg = Value("GuildChannel", 123, N_general)
    /\ built = <<"<", "#", "1", "2", "3", ">">>

\* C7: build(user(new(), n)) is the user token of id n, "<@42>" for 42, and
\* nothing else.
C7_UserToken ==
    Ran(<<"user", "build">>) =>
        /\ built = UserIdDisplay(log[1].arg.id)
        /\ log[1].arg.id = 42 => built = <<"<", "@", "4", "2", ">">>

C7_Witness ==
    /\ Ran(<<"user", "build">>)
    /\ log[1].arg = Value("u64", 42, <<>>)
    /\ built = <<"<", "@", "4", "2", ">">>

\* C8: mention appends the entity's own mention text after the content
\* already there, in call order, and a repeated mention is appended again.
C8_MentionInOrder ==
    /\ Ran(<<"push", "mention", "build">>) =>
           /\ built = log[1].arg.name \o Mention(log[2].arg)
           /\ (log[1].arg.name = T_Hi /\ log[2].arg = Value("User", 42, N_general)) =>
                  built = <<"H", "i", " ", "<", "@", "4", "2", ">">>
    /\ Ran(<<"mention", "mention", "build">>) =>
           built = Mention(log[1].arg) \o Mention(log[2].arg)

C8_Witness ==
    /\ Ran(<<"mention", "mention", "build">>)
    /\ log[1].arg = Value("Role", 42, N_general)
    /\ log[2].arg = log[1].arg
    /\ built = <<"<", "@", "&", "4", "2", ">", "<", "@", "&", "4", "2", ">">>

\* C9: new().push(a).mention(user).push(b).mention(emoji).build() is
\* a + user.mention() + b + the emoji's display form.
C9_DocScenario ==
    ( /\ Ran(<<"push", "mention", "push", "mention", "build">>)
      /\ log[2].arg.kind = "User"
      /\ log[4].arg.kind = "Emoji" ) =>
        built = log[1].arg.name \o UserIdDisplay(log[2].arg.id)
                    \o log[3].arg.name \o EmojiDisplay(log[4].arg)

C9_Witness ==
    /\ Ran(<<"push", "mention", "push", "mention", "build">>)
    /\ log[1].arg.name = T_YouSent
    /\ log[2].arg = Value("User", 42, N_general)
    /\ log[3].arg.name = T_Bang
    /\ log[4].arg = Value("Emoji", 7, N_ok)
    /\ built = T_YouSent \o <<"<", "@", "4", "2", ">", "!", " ",
                              "<", ":", "o", "k", ":", "7", ">">>

\* C10: build is terminal: every call is made on an accumulating builder,
\* build moves it to consumed and hands over the content, nothing else
\* consumes it, and the text handed over changes in no other step.
C10_BuildIsTerminal ==
    [][ /\ state = "accumulating"
        /\ last'.op = "build" => (state' = "consumed" /\ built' = content)
        /\ last'.op # "build" => (state' = "accumulating" /\ built' = built) ]_vars

C10_Witness ==
    /\ state = "consumed"
    /\ last.op = "build"
    /\ nops = 2
    /\ built = T_Hi \o <<"<", ":", "o", "k", ":", "7", ">">>


=============================================================================
